---- MODULE Spec2Model ----
(***************************************************************************)
(* Model of the ocr command (src/main.go): flag checking, credential      *)
(* resolution with the on-disk OAuth2 token cache, image submission and    *)
(* printing of the detected text.  Every system call and library call of   *)
(* main is one step of a process; the outcomes of the calls (file present, *)
(* parse error, network failure, ...) are chosen by the environment.       *)
(*                                                                         *)
(* Strings are sequences of chunks; "\n" is the newline chunk.             *)
(***************************************************************************)
EXTENDS Naturals, Sequences, FiniteSets

VARIABLES
    dirExists,          \* ./credentials is a directory
    cacheExists,        \* ./credentials/cache.json exists
    cacheFile,          \* its content (chunks); <<>> when absent or truncated
    runs,               \* invocations started so far
    pc,                 \* per process: position in main
    flagServiceAccount, \* per process: -service_account
    flagClientID,       \* per process: -client_id
    flagInput,          \* per process: -input
    tok,                \* per process: token held by getToken
    cl,                 \* per process: the vision client
    texts,              \* per process: annotations returned by DetectTexts
    idx,                \* per process: index of the range loop of main
    stdout,             \* per process: standard output of the run (chunks)
    exit,               \* per process: "running", "0" or "1"
    code,               \* per process: authorization code read from standard input
    cacheRead,          \* per process: what tokenFromFile found at the cache path
    log,                \* per process: I/O and network operations attempted in the run
    errs                \* per process: errors that occurred in the run

vars == <<dirExists, cacheExists, cacheFile, runs, pc, flagServiceAccount,
          flagClientID, flagInput, tok, cl, texts, idx, stdout, exit, code,
          cacheRead, log, errs>>

fs == <<dirExists, cacheExists, cacheFile>>
flags == <<flagServiceAccount, flagClientID, flagInput>>

----------------------------------------------------------------------------
(* Bounds *)

MaxRuns == 2
MaxAnnots == 2

Procs == {1, 2}
SeqProcs == {1}

----------------------------------------------------------------------------
(* Values *)

SAPaths == {"", "sa.json"}
CIDPaths == {"", "client_id.json"}
InputPaths == {"", "img.png"}

NoToken == [access |-> "", refresh |-> ""]
Tokens == {[access |-> "a1", refresh |-> ""], [access |-> "a2", refresh |-> "r2"]}

NoClient == [kind |-> "none", tok |-> NoToken]

Descriptions == {<<"hello">>, <<"hello", "\n", "world">>}
Annotation(d) == [Description |-> d]

RECURSIVE SeqsUpTo(_, _)
SeqsUpTo(S, n) ==
    IF n = 0 THEN {<<>>}
    ELSE LET shorter == SeqsUpTo(S, n - 1)
         IN shorter \cup {Append(s, x) : s \in {t \in shorter : Len(t) = n - 1}, x \in S}

AnnotSeqs == SeqsUpTo({Annotation(d) : d \in Descriptions}, MaxAnnots)

CachePath == <<"credentials", "/", "cache.json">>
AuthURL == "authURL"

----------------------------------------------------------------------------
(* encoding/json on oauth2.Token, and file writes *)

\* json.NewEncoder(f).Encode(token): one JSON object and a newline;
\* refresh_token is omitted when empty.
Encode(t) ==
    IF t.refresh = ""
    THEN <<"{", t.access, "}", "\n">>
    ELSE <<"{", t.access, ",", t.refresh, "}", "\n">>

\* json.NewDecoder(f).Decode(t): the first JSON value of the stream; what
\* follows it is not read.
Decode(c) ==
    IF Len(c) >= 3 /\ c[1] = "{" /\ c[3] = "}"
    THEN [ok |-> TRUE, tok |-> [access |-> c[2], refresh |-> ""]]
    ELSE IF Len(c) >= 5 /\ c[1] = "{" /\ c[3] = "," /\ c[5] = "}"
    THEN [ok |-> TRUE, tok |-> [access |-> c[2], refresh |-> c[4]]]
    ELSE [ok |-> FALSE, tok |-> NoToken]

\* Variant: the file opened with O_APPEND.
WriteAt0_Append(old, data) ==
    old \o data

\* A write of data at offset 0 of a file holding old (no O_APPEND).
WriteAt0(old, data) ==
    data \o SubSeq(old, Len(data) + 1, Len(old))


----------------------------------------------------------------------------
(* Initial state: no invocation started; the working directory holds no    *)
(* credentials directory, an empty one, or one with a cache file that is   *)
(* either a token saved by an earlier run or something else.               *)

NotRead == [state |-> "unread", content |-> <<>>]

InitFS ==
    \/ /\ dirExists = FALSE /\ cacheExists = FALSE /\ cacheFile = <<>>
    \/ /\ dirExists = TRUE /\ cacheExists = FALSE /\ cacheFile = <<>>
    \/ /\ dirExists = TRUE /\ cacheExists = TRUE
       /\ cacheFile \in {Encode(t) : t \in Tokens} \cup {<<"garbage">>}

Init ==
    /\ InitFS
    /\ runs = 0
    /\ pc = [p \in Procs |-> "idle"]
    /\ flagServiceAccount = [p \in Procs |-> ""]
    /\ flagClientID = [p \in Procs |-> ""]
    /\ flagInput = [p \in Procs |-> ""]
    /\ tok = [p \in Procs |-> NoToken]
    /\ cl = [p \in Procs |-> NoClient]
    /\ texts = [p \in Procs |-> <<>>]
    /\ idx = [p \in Procs |-> 0]
    /\ stdout = [p \in Procs |-> <<>>]
    /\ exit = [p \in Procs |-> "running"]
    /\ code = [p \in Procs |-> ""]
    /\ cacheRead = [p \in Procs |-> NotRead]
    /\ log = [p \in Procs |-> <<>>]
    /\ errs = [p \in Procs |-> {}]

----------------------------------------------------------------------------
(* Steps of one invocation *)

\* The call is made: it is recorded whatever its outcome.
Attempt(p, op) == log' = [log EXCEPT ![p] = Append(@, op)]

\* log.Fatalf: message to standard error, os.Exit(1).
Fatalf(p, e) ==
    /\ pc' = [pc EXCEPT ![p] = "fatal"]
    /\ exit' = [exit EXCEPT ![p] = "1"]
    /\ errs' = [errs EXCEPT ![p] = @ \cup {e}]

Goto(p, l) ==
    /\ pc' = [pc EXCEPT ![p] = l]
    /\ UNCHANGED <<exit, errs>>

\* fmt.Printf / fmt.Println to standard output.
Printf(p, s) == stdout' = [stdout EXCEPT ![p] = @ \o s]

\* The command is invoked: flag.Parse sets the three flags.
StartRun(p) ==
    /\ pc[p] \in {"idle", "done", "fatal"}
    /\ runs < MaxRuns
    /\ runs' = runs + 1
    /\ \E sa \in SAPaths, cid \in CIDPaths, inp \in InputPaths :
          /\ flagServiceAccount' = [flagServiceAccount EXCEPT ![p] = sa]
          /\ flagClientID' = [flagClientID EXCEPT ![p] = cid]
          /\ flagInput' = [flagInput EXCEPT ![p] = inp]
    /\ pc' = [pc EXCEPT ![p] = "main"]
    /\ tok' = [tok EXCEPT ![p] = NoToken]
    /\ cl' = [cl EXCEPT ![p] = NoClient]
    /\ texts' = [texts EXCEPT ![p] = <<>>]
    /\ idx' = [idx EXCEPT ![p] = 0]
    /\ stdout' = [stdout EXCEPT ![p] = <<>>]
    /\ exit' = [exit EXCEPT ![p] = "running"]
    /\ code' = [code EXCEPT ![p] = ""]
    /\ cacheRead' = [cacheRead EXCEPT ![p] = NotRead]
    /\ log' = [log EXCEPT ![p] = <<>>]
    /\ errs' = [errs EXCEPT ![p] = {}]
    /\ UNCHANGED fs

\* Variant: the check that the two flags exclude each other is missing.
CheckCredentialFlags_NoExclusion(p) ==
    /\ pc[p] = "main"
    /\ IF flagServiceAccount[p] = "" /\ flagClientID[p] = ""
       THEN Fatalf(p, "config")
       ELSE Goto(p, "checkInput")
    /\ UNCHANGED <<fs, runs, flags, tok, cl, texts, idx, stdout, code, cacheRead, log>>

\* main: exactly one of -service_account and -client_id.
CheckCredentialFlags(p) ==
    /\ pc[p] = "main"
    /\ IF flagServiceAccount[p] = "" /\ flagClientID[p] = ""
       THEN Fatalf(p, "config")
       ELSE IF flagServiceAccount[p] # "" /\ flagClientID[p] # ""
       THEN Fatalf(p, "config")
       ELSE Goto(p, "checkInput")
    /\ UNCHANGED <<fs, runs, flags, tok, cl, texts, idx, stdout, code, cacheRead, log>>

\* Variant: -input is not checked.
CheckInputFlag_Missing(p) ==
    /\ pc[p] = "checkInput"
    /\ Goto(p, "visionClient")
    /\ UNCHANGED <<fs, runs, flags, tok, cl, texts, idx, stdout, code, cacheRead, log>>

\* main: -input is required.
CheckInputFlag(p) ==
    /\ pc[p] = "checkInput"
    /\ IF flagInput[p] = ""
       THEN Fatalf(p, "config")
       ELSE Goto(p, "visionClient")
    /\ UNCHANGED <<fs, runs, flags, tok, cl, texts, idx, stdout, code, cacheRead, log>>

\* Variant: main does not check the error of visionClient.
ServiceAccountClient_ErrorUnchecked(p) ==
    /\ pc[p] = "visionClient"
    /\ flagServiceAccount[p] # ""
    /\ Attempt(p, "readServiceAccount")
    /\ \/ /\ cl' = [cl EXCEPT ![p] = [kind |-> "serviceAccount", tok |-> NoToken]]
          /\ Goto(p, "openImage")
       \/ /\ \E e \in {"serviceAccountUnreadable", "serviceAccountMalformed"} :
                errs' = [errs EXCEPT ![p] = @ \cup {e}]
          /\ pc' = [pc EXCEPT ![p] = "openImage"]
          /\ UNCHANGED <<cl, exit>>
    /\ UNCHANGED <<fs, runs, flags, tok, texts, idx, stdout, code, cacheRead>>

\* visionClient, service-account branch: the SDK reads the credentials file
\* and builds the client; main exits on its error.
ServiceAccountClient(p) ==
    /\ pc[p] = "visionClient"
    /\ flagServiceAccount[p] # ""
    /\ Attempt(p, "readServiceAccount")
    /\ \/ /\ cl' = [cl EXCEPT ![p] = [kind |-> "serviceAccount", tok |-> NoToken]]
          /\ Goto(p, "openImage")
       \/ /\ \E e \in {"serviceAccountUnreadable", "serviceAccountMalformed"} : Fatalf(p, e)
          /\ UNCHANGED cl
    /\ UNCHANGED <<fs, runs, flags, tok, texts, idx, stdout, code, cacheRead>>

\* visionClient, client-ID branch: ioutil.ReadFile and google.ConfigFromJSON.
ReadClientID(p) ==
    /\ pc[p] = "visionClient"
    /\ flagServiceAccount[p] = ""
    /\ Attempt(p, "readClientID")
    /\ \/ Goto(p, "tokenCacheFile")
       \/ \E e \in {"clientIDUnreadable", "clientIDUnparseable"} : Fatalf(p, e)
    /\ UNCHANGED <<fs, runs, flags, tok, cl, texts, idx, stdout, code, cacheRead>>

\* tokenCacheFile: os.MkdirAll, whose error is dropped; the returned error
\* is always nil.
tokenCacheFile(p) ==
    /\ pc[p] = "tokenCacheFile"
    /\ Attempt(p, "mkdir")
    /\ pc' = [pc EXCEPT ![p] = "tokenFromFile"]
    /\ \/ /\ dirExists
          /\ UNCHANGED <<dirExists, errs>>
       \/ /\ ~dirExists
          /\ dirExists' = TRUE
          /\ UNCHANGED errs
       \/ /\ ~dirExists
          /\ errs' = [errs EXCEPT ![p] = @ \cup {"mkdir"}]
          /\ UNCHANGED dirExists
    /\ UNCHANGED <<cacheExists, cacheFile, runs, flags, tok, cl, texts, idx, stdout,
                   exit, code, cacheRead>>

\* Variant: tokenFromFile returns the error of os.Open only, the error of
\* Decode is dropped.
tokenFromFile_DecodeErrorDropped(p) ==
    /\ pc[p] = "tokenFromFile"
    /\ Attempt(p, "openCache")
    /\ IF ~cacheExists
       THEN /\ cacheRead' = [cacheRead EXCEPT ![p] = [state |-> "absent", content |-> <<>>]]
            /\ Goto(p, "getTokenFromWeb")
            /\ UNCHANGED tok
       ELSE /\ cacheRead' = [cacheRead EXCEPT ![p] = [state |-> "present", content |-> cacheFile]]
            /\ tok' = [tok EXCEPT ![p] = Decode(cacheFile).tok]
            /\ Goto(p, "tokenSource")
    /\ UNCHANGED <<fs, runs, flags, cl, texts, idx, stdout, code>>

\* Variant: getToken calls saveToken on every path.
tokenFromFile_AlwaysSave(p) ==
    /\ pc[p] = "tokenFromFile"
    /\ Attempt(p, "openCache")
    /\ IF ~cacheExists
       THEN /\ cacheRead' = [cacheRead EXCEPT ![p] = [state |-> "absent", content |-> <<>>]]
            /\ Goto(p, "getTokenFromWeb")
            /\ UNCHANGED tok
       ELSE /\ cacheRead' = [cacheRead EXCEPT ![p] = [state |-> "present", content |-> cacheFile]]
            /\ IF Decode(cacheFile).ok
               THEN /\ tok' = [tok EXCEPT ![p] = Decode(cacheFile).tok]
                    /\ Goto(p, "saveToken")
               ELSE /\ Goto(p, "getTokenFromWeb")
                    /\ UNCHANGED tok
    /\ UNCHANGED <<fs, runs, flags, cl, texts, idx, stdout, code>>

\* tokenFromFile and the branch of getToken on its error.
tokenFromFile(p) ==
    /\ pc[p] = "tokenFromFile"
    /\ Attempt(p, "openCache")
    /\ IF ~cacheExists
       THEN /\ cacheRead' = [cacheRead EXCEPT ![p] = [state |-> "absent", content |-> <<>>]]
            /\ Goto(p, "getTokenFromWeb")
            /\ UNCHANGED tok
       ELSE /\ cacheRead' = [cacheRead EXCEPT ![p] = [state |-> "present", content |-> cacheFile]]
            /\ IF Decode(cacheFile).ok
               THEN /\ tok' = [tok EXCEPT ![p] = Decode(cacheFile).tok]
                    /\ Goto(p, "tokenSource")
               ELSE /\ Goto(p, "getTokenFromWeb")
                    /\ UNCHANGED tok
    /\ UNCHANGED <<fs, runs, flags, cl, texts, idx, stdout, code>>

\* getTokenFromWeb: the authorization URL is printed.
PrintAuthURL(p) ==
    /\ pc[p] = "getTokenFromWeb"
    /\ Printf(p, <<"Go to the following link in your browser then type the authorization code: ",
                   "\n", AuthURL, "\n">>)
    /\ Goto(p, "scan")
    /\ UNCHANGED <<fs, runs, flags, tok, cl, texts, idx, code, cacheRead, log>>

\* getTokenFromWeb: fmt.Scan blocks on standard input.
ScanCode(p) ==
    /\ pc[p] = "scan"
    /\ Attempt(p, "stdin")
    /\ \/ \E c \in {"validCode", "invalidCode"} :
             /\ code' = [code EXCEPT ![p] = c]
             /\ Goto(p, "exchange")
       \/ /\ Fatalf(p, "stdin")
          /\ UNCHANGED code
    /\ UNCHANGED <<fs, runs, flags, tok, cl, texts, idx, stdout, cacheRead>>

\* getTokenFromWeb: config.Exchange.
Exchange(p) ==
    /\ pc[p] = "exchange"
    /\ Attempt(p, "exchange")
    /\ \/ /\ code[p] = "validCode"
          /\ \E t \in Tokens : tok' = [tok EXCEPT ![p] = t]
          /\ Goto(p, "saveToken")
       \/ /\ Fatalf(p, "exchange")
          /\ UNCHANGED tok
    /\ UNCHANGED <<fs, runs, flags, cl, texts, idx, stdout, code, cacheRead>>

\* saveToken: the path is printed and the file is opened with
\* O_RDWR|O_CREATE|O_TRUNC.
saveTokenOpen(p) ==
    /\ pc[p] = "saveToken"
    /\ Printf(p, <<"Saving credential file to: ">> \o CachePath \o <<"\n">>)
    /\ Attempt(p, "saveOpen")
    /\ IF dirExists
       THEN /\ cacheExists' = TRUE
            /\ cacheFile' = <<>>
            /\ Goto(p, "saveEncode")
       ELSE /\ Fatalf(p, "cacheOpen")
            /\ UNCHANGED <<cacheExists, cacheFile>>
    /\ UNCHANGED <<dirExists, runs, flags, tok, cl, texts, idx, code, cacheRead>>

\* saveToken: json.NewEncoder(f).Encode(token), whose error is dropped; a
\* failed write leaves a proper prefix of the data.
saveTokenEncode(p) ==
    /\ pc[p] = "saveEncode"
    /\ Attempt(p, "saveEncode")
    /\ pc' = [pc EXCEPT ![p] = "tokenSource"]
    /\ \/ /\ cacheFile' = WriteAt0(cacheFile, Encode(tok[p]))
          /\ UNCHANGED errs
       \/ /\ \E n \in 0 .. (Len(Encode(tok[p])) - 1) :
                cacheFile' = WriteAt0(cacheFile, SubSeq(Encode(tok[p]), 1, n))
          /\ errs' = [errs EXCEPT ![p] = @ \cup {"encode"}]
    /\ UNCHANGED <<dirExists, cacheExists, runs, flags, tok, cl, texts, idx, stdout,
                   exit, code, cacheRead>>

\* visionClient: config.TokenSource and vision.NewImageAnnotatorClient; main
\* exits on its error.
TokenSourceClient(p) ==
    /\ pc[p] = "tokenSource"
    /\ Attempt(p, "newClient")
    /\ \/ /\ cl' = [cl EXCEPT ![p] = [kind |-> "tokenSource", tok |-> tok[p]]]
          /\ Goto(p, "openImage")
       \/ /\ Fatalf(p, "client")
          /\ UNCHANGED cl
    /\ UNCHANGED <<fs, runs, flags, tok, texts, idx, stdout, code, cacheRead>>

\* main: os.Open(*flagInput).
OpenImage(p) ==
    /\ pc[p] = "openImage"
    /\ Attempt(p, "openImage")
    /\ \/ Goto(p, "newImage")
       \/ Fatalf(p, "imageOpen")
    /\ UNCHANGED <<fs, runs, flags, tok, cl, texts, idx, stdout, code, cacheRead>>

\* main: vision.NewImageFromReader(file).
NewImageFromReader(p) ==
    /\ pc[p] = "newImage"
    /\ Attempt(p, "readImage")
    /\ \/ Goto(p, "detect")
       \/ Fatalf(p, "imageRead")
    /\ UNCHANGED <<fs, runs, flags, tok, cl, texts, idx, stdout, code, cacheRead>>

\* Variant: main does not check the error of DetectTexts.
DetectTexts_ErrorUnchecked(p) ==
    /\ pc[p] = "detect"
    /\ Attempt(p, "detect")
    /\ \/ /\ \E ts \in AnnotSeqs : texts' = [texts EXCEPT ![p] = ts]
          /\ Goto(p, "printHeader")
       \/ /\ errs' = [errs EXCEPT ![p] = @ \cup {"detect"}]
          /\ pc' = [pc EXCEPT ![p] = "printHeader"]
          /\ UNCHANGED <<texts, exit>>
    /\ UNCHANGED <<fs, runs, flags, tok, cl, idx, stdout, code, cacheRead>>

\* main: cl.DetectTexts(ctx, image, nil, -1).
DetectTexts(p) ==
    /\ pc[p] = "detect"
    /\ Attempt(p, "detect")
    /\ \/ /\ \E ts \in AnnotSeqs : texts' = [texts EXCEPT ![p] = ts]
          /\ Goto(p, "printHeader")
       \/ /\ Fatalf(p, "detect")
          /\ UNCHANGED texts
    /\ UNCHANGED <<fs, runs, flags, tok, cl, idx, stdout, code, cacheRead>>

\* main: fmt.Println("Text:").
PrintHeader(p) ==
    /\ pc[p] = "printHeader"
    /\ Printf(p, <<"Text:", "\n">>)
    /\ idx' = [idx EXCEPT ![p] = 1]
    /\ Goto(p, "printLoop")
    /\ UNCHANGED <<fs, runs, flags, tok, cl, texts, code, cacheRead, log>>

\* Variant: the loop walks the annotations from the last to the first.
PrintText_Reversed(p) ==
    /\ pc[p] = "printLoop"
    /\ idx[p] <= Len(texts[p])
    /\ Printf(p, texts[p][Len(texts[p]) + 1 - idx[p]].Description \o <<"\n">>)
    /\ idx' = [idx EXCEPT ![p] = @ + 1]
    /\ UNCHANGED <<fs, runs, flags, pc, exit, errs, tok, cl, texts, code, cacheRead, log>>

\* main: one iteration of the range loop, fmt.Println(t.Description).
PrintText(p) ==
    /\ pc[p] = "printLoop"
    /\ idx[p] <= Len(texts[p])
    /\ Printf(p, texts[p][idx[p]].Description \o <<"\n">>)
    /\ idx' = [idx EXCEPT ![p] = @ + 1]
    /\ UNCHANGED <<fs, runs, flags, pc, exit, errs, tok, cl, texts, code, cacheRead, log>>

\* main returns: exit status 0.
Return(p) ==
    /\ pc[p] = "printLoop"
    /\ idx[p] > Len(texts[p])
    /\ pc' = [pc EXCEPT ![p] = "done"]
    /\ exit' = [exit EXCEPT ![p] = "0"]
    /\ UNCHANGED <<fs, runs, flags, errs, tok, cl, texts, idx, stdout, code, cacheRead, log>>

\* Credential resolution: the checks of main and visionClient.
ResolveStep(p) ==
    \/ StartRun(p)
    \/ CheckCredentialFlags(p)
    \/ CheckInputFlag(p)
    \/ ServiceAccountClient(p)
    \/ ReadClientID(p)
    \/ tokenCacheFile(p)
    \/ tokenFromFile(p)
    \/ PrintAuthURL(p)
    \/ ScanCode(p)
    \/ Exchange(p)
    \/ saveTokenOpen(p)
    \/ saveTokenEncode(p)
    \/ TokenSourceClient(p)

\* Image submission, detection and output.
DetectStep(p) ==
    \/ OpenImage(p)
    \/ NewImageFromReader(p)
    \/ DetectTexts(p)
    \/ PrintHeader(p)
    \/ PrintText(p)
    \/ Return(p)

\* One invocation at a time, run after run, in the same working directory.
Next == \E p \in SeqProcs : ResolveStep(p) \/ DetectStep(p)
Spec == Init /\ [][Next]_vars

\* Invocations of two processes interleaved at every call, each followed
\* until visionClient returns: nothing after it touches the cache file.
NextConc == \E p \in Procs : ResolveStep(p)
SpecConc == Init /\ [][NextConc]_vars

----------------------------------------------------------------------------
(* Observations used by the properties *)

Has(p, op) == \E i \in 1 .. Len(log[p]) : log[p][i] = op

AuthPrompt ==
    <<"Go to the following link in your browser then type the authorization code: ",
      "\n", AuthURL, "\n">>
SaveLine == <<"Saving credential file to: ">> \o CachePath \o <<"\n">>

PromptShown(p) ==
    Len(stdout[p]) >= Len(AuthPrompt) /\ SubSeq(stdout[p], 1, Len(AuthPrompt)) = AuthPrompt

HeaderPrinted(p) == \E i \in 1 .. Len(stdout[p]) : stdout[p][i] = "Text:"

CacheMissed(p) ==
    \/ cacheRead[p].state = "absent"
    \/ cacheRead[p].state = "present" /\ ~Decode(cacheRead[p].content).ok

CacheHit(p) ==
    cacheRead[p].state = "present" /\ Decode(cacheRead[p].content).ok

BadCredentialFlags(p) ==
    \/ flagServiceAccount[p] = "" /\ flagClientID[p] = ""
    \/ flagServiceAccount[p] # "" /\ flagClientID[p] # ""

RECURSIVE Lines(_)
Lines(ts) ==
    IF ts = <<>> THEN <<>> ELSE ts[1].Description \o <<"\n">> \o Lines(Tail(ts))

\* What credential resolution wrote to standard output before the results.
AuthLines(p) ==
    IF Has(p, "saveOpen") THEN AuthPrompt \o SaveLine
    ELSE IF PromptShown(p) THEN AuthPrompt
    ELSE <<>>

----------------------------------------------------------------------------
(* Properties *)

\* C1: an invocation with both or neither of -service_account and -client_id
\* never gets past the flag check: it attempts no file, directory, standard
\* input or network operation, prints nothing, and ends with the
\* configuration error only.
C1_BadCredentialFlagsStopBeforeIO ==
    \A p \in Procs :
        (pc[p] # "idle" /\ BadCredentialFlags(p)) =>
            /\ pc[p] \in {"main", "fatal"}
            /\ log[p] = <<>>
            /\ stdout[p] = <<>>
            /\ cacheRead[p] = NotRead
            /\ cl[p] = NoClient
            /\ pc[p] = "fatal" => (errs[p] = {"config"} /\ exit[p] = "1")

C1_Witness ==
    \E p \in Procs :
        /\ pc[p] = "fatal"
        /\ flagServiceAccount[p] # "" /\ flagClientID[p] # ""
        /\ errs[p] = {"config"}

\* C2: an invocation with an empty -input ends with the configuration error
\* before visionClient is called: no credential file or token cache is
\* read and no authorization prompt is printed.
C2_EmptyInputStopsBeforeCredentials ==
    \A p \in Procs :
        (pc[p] # "idle" /\ flagInput[p] = "") =>
            /\ pc[p] \in {"main", "checkInput", "fatal"}
            /\ log[p] = <<>>
            /\ stdout[p] = <<>>
            /\ cacheRead[p] = NotRead
            /\ cl[p] = NoClient
            /\ pc[p] = "fatal" => (errs[p] = {"config"} /\ exit[p] = "1")

C2_Witness ==
    \E p \in Procs :
        /\ pc[p] = "fatal"
        /\ flagInput[p] = ""
        /\ ~BadCredentialFlags(p)
        /\ errs[p] = {"config"}

\* C3: in client-ID mode the interactive flow runs exactly when the cache
\* file was found absent or undecodable; on a decodable cache file nothing
\* is prompted, standard input is not read, no exchange is made, and the
\* token of the client is the one decoded from the file.
C3_InteractiveIffCacheMiss ==
    \A p \in Procs :
        /\ (PromptShown(p) \/ Has(p, "stdin") \/ Has(p, "exchange")) => CacheMissed(p)
        /\ CacheMissed(p) => (pc[p] = "getTokenFromWeb" \/ PromptShown(p))
        /\ CacheHit(p) =>
              /\ ~PromptShown(p) /\ ~Has(p, "stdin") /\ ~Has(p, "exchange")
              /\ pc[p] \in {"tokenSource", "openImage", "newImage", "detect",
                            "printHeader", "printLoop", "done", "fatal"}
              /\ tok[p] = Decode(cacheRead[p].content).tok
              /\ cl[p].kind = "tokenSource" => cl[p].tok = Decode(cacheRead[p].content).tok

C3_Witness ==
    \E p \in Procs :
        /\ CacheHit(p)
        /\ cl[p].kind = "tokenSource"
        /\ cl[p].tok \in Tokens
        /\ pc[p] = "done"

\* C4 (as claimed): with no cache file, once the code was read after the
\* prompt and the exchange succeeded and saveToken has returned, the cache
\* file exists and decodes to the exchanged token.
C4_CacheWrittenAfterExchange ==
    \A p \in Procs :
        /\ Has(p, "stdin") => PromptShown(p)
        /\ (cacheRead[p].state = "absent" /\ code[p] = "validCode" /\ tok[p] \in Tokens
              /\ pc[p] \in {"tokenSource", "openImage", "newImage", "detect",
                            "printHeader", "printLoop", "done"}) =>
              /\ cacheExists
              /\ Decode(cacheFile).ok
              /\ Decode(cacheFile).tok = tok[p]

\* C5: when main returns, standard output is what credential resolution
\* printed, then the header "Text:" and a newline, then each annotation's
\* description followed by a newline, in the order returned; while the
\* loop runs it holds the lines of the annotations already visited.
C5_OutputIsHeaderThenDescriptions ==
    \A p \in Procs :
        /\ pc[p] = "printLoop" =>
              stdout[p] = AuthLines(p) \o <<"Text:", "\n">>
                            \o Lines(SubSeq(texts[p], 1, idx[p] - 1))
        /\ pc[p] = "done" =>
              stdout[p] = AuthLines(p) \o <<"Text:", "\n">> \o Lines(texts[p])

C5_Witness ==
    \E p \in Procs :
        /\ pc[p] = "done"
        /\ Len(texts[p]) = 2
        /\ texts[p][1] # texts[p][2]

\* C6 (as claimed): every error stops the run at once with exit status 1,
\* and exit status 0 means no error occurred and the results were printed.
C6_EveryErrorIsFatal ==
    \A p \in Procs :
        /\ errs[p] # {} => (pc[p] = "fatal" /\ exit[p] = "1")
        /\ exit[p] = "0" => (errs[p] = {} /\ HeaderPrinted(p))

\* C7: when the service-account file is unreadable or malformed the run
\* ends with exit status 1 having attempted nothing but the reading of that
\* file: the image is not opened and detection is not called.
C7_BadServiceAccountIsFatal ==
    \A p \in Procs :
        (errs[p] \cap {"serviceAccountUnreadable", "serviceAccountMalformed"} # {}) =>
            /\ pc[p] = "fatal" /\ exit[p] = "1"
            /\ log[p] = <<"readServiceAccount">>
            /\ ~Has(p, "openImage") /\ ~Has(p, "detect")
            /\ cl[p] = NoClient
            /\ stdout[p] = <<>>

C7_Witness ==
    \E p \in Procs :
        /\ "serviceAccountMalformed" \in errs[p]
        /\ pc[p] = "fatal"

\* Order of the operations of a run.
Rank(op) ==
    CASE op = "readServiceAccount" -> 1
      [] op = "readClientID" -> 1
      [] op = "mkdir" -> 2
      [] op = "openCache" -> 3
      [] op = "stdin" -> 4
      [] op = "exchange" -> 5
      [] op = "saveOpen" -> 6
      [] op = "saveEncode" -> 7
      [] op = "newClient" -> 8
      [] op = "openImage" -> 9
      [] op = "readImage" -> 10
      [] op = "detect" -> 11

\* Errors the code drops: of os.MkdirAll and of Encode.
DroppedErrors == {"mkdir", "encode"}

\* C8: the operations of a run happen in the order configuration check,
\* credential resolution, image opening, detection, printing, none of them
\* twice; a stage is entered only after the stages before it returned
\* without error; a run that ended with an error has printed no result
\* line; the image is opened and detection called only with a client.
C8_LinearControlFlow ==
    \A p \in Procs :
        /\ \A i, j \in 1 .. Len(log[p]) : i < j => Rank(log[p][i]) < Rank(log[p][j])
        /\ log[p] # <<>> => (~BadCredentialFlags(p) /\ flagInput[p] # "")
        /\ (Has(p, "openImage") \/ Has(p, "readImage") \/ Has(p, "detect")) =>
              cl[p].kind \in {"serviceAccount", "tokenSource"}
        /\ Has(p, "readImage") => Has(p, "openImage")
        /\ Has(p, "detect") => Has(p, "readImage")
        /\ HeaderPrinted(p) => (Has(p, "detect") /\ pc[p] \in {"printLoop", "done"})
        /\ pc[p] = "fatal" => (~HeaderPrinted(p) /\ texts[p] = <<>>)
        /\ pc[p] # "fatal" => errs[p] \subseteq DroppedErrors

C8_Witness ==
    \E p \in Procs :
        /\ pc[p] = "fatal"
        /\ "detect" \in errs[p]
        /\ Has(p, "exchange")

\* C9: a step changes the cache file only if it is a step of saveToken in a
\* client-ID run that missed the cache and completed the exchange, and a
\* run opens the file for writing and encodes into it at most once.
C9_CacheWrittenOnlyAfterMissAndExchange ==
    [][(cacheFile' # cacheFile \/ cacheExists' # cacheExists) =>
          \E p \in Procs :
              /\ flagClientID[p] # "" /\ flagServiceAccount[p] = ""
              /\ CacheMissed(p)
              /\ Has(p, "exchange") /\ tok[p] \in Tokens
              /\ \/ pc[p] = "saveToken" /\ pc'[p] = "saveEncode" /\ ~Has(p, "saveOpen")
                 \/ pc[p] = "saveEncode" /\ pc'[p] = "tokenSource" /\ ~Has(p, "saveEncode")]_vars

C9_Witness ==
    \E p \in Procs :
        /\ cacheRead[p].state = "absent"
        /\ Has(p, "saveEncode")
        /\ cacheExists /\ Decode(cacheFile).ok /\ Decode(cacheFile).tok = tok[p]

\* C10: nothing serialises the invocations on the cache file, and the
\* token it holds after a completed write is the one of that write,
\* whatever other invocations wrote before: the last write wins.
C10_LastWriteWins ==
    [][\A p \in Procs :
          (pc[p] = "saveEncode" /\ pc'[p] = "tokenSource" /\ "encode" \notin errs'[p]) =>
              (cacheExists' /\ Decode(cacheFile').ok /\ Decode(cacheFile').tok = tok[p])]_vars

\* Two invocations only: the second read the file the first had truncated
\* and not yet filled, ran the interactive flow, and both wrote; the file
\* holds the token of the second.
C10_Witness ==
    \E p, q \in Procs :
        /\ p # q /\ runs = 2
        /\ cacheRead[q] = [state |-> "present", content |-> <<>>]
        /\ Has(p, "saveEncode") /\ Has(q, "saveEncode")
        /\ PromptShown(q)
        /\ errs[p] = {} /\ errs[q] = {}
        /\ tok[p] # tok[q]
        /\ Decode(cacheFile).ok /\ Decode(cacheFile).tok = tok[q]

====
